---- MODULE Spec2Model ----
(***************************************************************************)
(* loomy, Production backend (feature `enable` off): the UnsafeCell        *)
(* adapter (new / with / with_mut), the entry point model(f), and the      *)
(* documented SpinLock built on them, run by a main thread and one         *)
(* spawned thread.  A behaviour is one call of model(body); the body is a  *)
(* small program of calls, chosen in Init.  Threads interleave at single   *)
(* reads, writes and atomic operations; the Acquire exchange and the       *)
(* Release store order the accesses they guard, so guarded accesses see    *)
(* the cell's current value.  An unguarded read that overlaps a write      *)
(* window is a data race and may give any value.                           *)
(***************************************************************************)
EXTENDS Integers, Sequences, FiniteSets, TLC

VARIABLES
    prog,       \* prog[t]: the calls thread t makes, in order (the test body)
    ip,         \* ip[t]: index in prog[t] of the call t is at
    pc,         \* pc[t]: position of t inside the current call
    mpc,        \* position of model(f): "idle", "running", "returned"
    bodyRuns,   \* number of times model has invoked the body
    flag,       \* SpinLock.flag (AtomicBool)
    data,       \* value held by the UnsafeCell (SpinLock.data)
    local,      \* local[t]: value read by the closure `*n += 1` before it writes
    fres,       \* fres[t]: value the closure f returned
    out,        \* out[t]: value the last with / with_mut / SpinLock::with returned
    fcalls,     \* fcalls[t]: number of times a closure passed by t was invoked
    nret,       \* nret[t]: number of with / with_mut calls of t that returned
    ptr,        \* ptr[t]: the raw pointer t's closure was handed
    pre,        \* pre[t]: cell value when t's current with / with_mut was entered
    last,       \* value of the most recent write to the cell (or constructed value)
    saved,      \* saved[t]: the raw pointer t kept beyond the closure's extent
    conflict,   \* an access overlapped another thread's access window
    spun        \* threads that failed compare_exchange_weak at least once

vars == <<prog, ip, pc, mpc, bodyRuns, flag, data, local, fres, out,
          fcalls, nret, ptr, pre, last, saved, conflict, spun>>

\* ---------------------------------------------------------------- bounds
MaxVal == 2
MaxOps == 3

\* ------------------------------------------------------------- constants
\* the value `()` of closures such as |n| *n += 1; also the cell before new
Unit == -1

Threads == {"main", "t"}

Other(t) == IF t = "main" THEN "t" ELSE "main"

Vals == 0..MaxVal

Op(k, v) == [k |-> k, v |-> v]

\* closures handed to SpinLock::with
LockKinds == {"LInc", "LSet", "LRead"}
\* closures handed directly to UnsafeCell::with_mut
RawMutKinds == {"WithMutInc", "WithMutSet"}
\* closures handed directly to UnsafeCell::with
RawKinds == {"With", "WithEscape"}
\* calls that go through with_mut
MutKinds == LockKinds \cup RawMutKinds
IncKinds == {"LInc", "WithMutInc"}
SetKinds == {"LSet", "WithMutSet"}
ReadKinds == {"LRead", "With"}

\* ------------------------------------------------------------ test bodies
\* the documented test: lines 70-85
TestSimple ==
    [main |-> << Op("New", 123), Op("Spawn", 0), Op("LSet", 456),
                 Op("LRead", 0), Op("Join", 0) >>,
     t    |-> << Op("LInc", 0) >>]

\* two threads, one locked increment each, counter from 0
TestIncr ==
    [main |-> << Op("New", 0), Op("Spawn", 0), Op("LInc", 0), Op("Join", 0) >>,
     t    |-> << Op("LInc", 0) >>]

\* the same increments on the bare cell, without the lock
TestRace ==
    [main |-> << Op("New", 0), Op("Spawn", 0), Op("WithMutInc", 0),
                 Op("With", 0), Op("Join", 0) >>,
     t    |-> << Op("WithMutInc", 0) >>]

\* a pointer kept beyond the closure and used while the other thread writes
TestEscape ==
    [main |-> << Op("New", 0), Op("Spawn", 0), Op("WithEscape", 0),
                 Op("Deref", 0), Op("Join", 0) >>,
     t    |-> << Op("WithMutSet", 1) >>]

CellOps == {Op("With", 0), Op("WithMutInc", 0)} \cup {Op("WithMutSet", v) : v \in Vals}

CellSeqs == UNION {[1..n -> CellOps] : n \in 0..MaxOps}

\* one thread, one cell: new(v) followed by any reads and writes
TestCell ==
    {[main |-> << Op("New", v) >> \o s, t |-> << >>] : v \in Vals, s \in CellSeqs}

Scenarios == {TestSimple, TestIncr, TestRace, TestEscape} \cup TestCell

\* ---------------------------------------------------------------- helpers
HasOp(t) == ip[t] <= Len(prog[t])

Kind(t) == IF HasOp(t) THEN prog[t][ip[t]].k ELSE "none"

Arg(t) == IF HasOp(t) THEN prog[t][ip[t]].v ELSE 0

\* t is within the extent of the closure it passed to with / with_mut
InWindow(t) == pc[t] \in {"f", "f2", "fret"}

InWithMut(t) == InWindow(t) /\ Kind(t) \in MutKinds

ReadConflict(t) == InWithMut(Other(t))

WriteConflict(t) == InWindow(Other(t))

\* ------------------------------------------------------------------ Init
Init ==
    /\ prog \in Scenarios
    /\ ip = [t \in Threads |-> 1]
    /\ pc = [t \in Threads |-> "start"]
    /\ mpc = "idle"
    /\ bodyRuns = 0
    /\ flag = FALSE
    /\ data = Unit
    /\ local = [t \in Threads |-> 0]
    /\ fres = [t \in Threads |-> Unit]
    /\ out = [t \in Threads |-> Unit]
    /\ fcalls = [t \in Threads |-> 0]
    /\ nret = [t \in Threads |-> 0]
    /\ ptr = [t \in Threads |-> "none"]
    /\ pre = [t \in Threads |-> Unit]
    /\ last = Unit
    /\ saved = [t \in Threads |-> "none"]
    /\ conflict = FALSE
    /\ spun = {}

\* ----------------------------------------------------------------- model
\* model(f): f() is called
model ==
    /\ mpc = "idle"
    /\ mpc' = "running"
    /\ bodyRuns' = bodyRuns + 1
    /\ pc' = [pc EXCEPT !["main"] = "ready"]
    /\ UNCHANGED <<prog, ip, flag, data, local, fres, out, fcalls, nret, ptr, pre,
                   last, saved, conflict, spun>>

\* a model that runs the body again after it returned
model_ret_rerun ==
    /\ mpc = "running"
    /\ pc["main"] = "ready"
    /\ ~HasOp("main")
    /\ IF bodyRuns < 2
       THEN /\ bodyRuns' = bodyRuns + 1
            /\ ip' = [t \in Threads |-> 1]
            /\ pc' = [t \in Threads |-> IF t = "main" THEN "ready" ELSE "start"]
            /\ mpc' = mpc
       ELSE /\ mpc' = "returned"
            /\ pc' = [pc EXCEPT !["main"] = "done"]
            /\ UNCHANGED <<bodyRuns, ip>>
    /\ UNCHANGED <<prog, flag, data, local, fres, out, fcalls, nret, ptr, pre,
                   last, saved, conflict, spun>>

\* f() has returned: model returns
model_ret ==
    /\ mpc = "running"
    /\ pc["main"] = "ready"
    /\ ~HasOp("main")
    /\ mpc' = "returned"
    /\ pc' = [pc EXCEPT !["main"] = "done"]
    /\ UNCHANGED <<prog, ip, bodyRuns, flag, data, local, fres, out, fcalls,
                   nret, ptr, pre, last, saved, conflict, spun>>

\* ------------------------------------------------------------ UnsafeCell
new_default(v) == 0

\* UnsafeCell::new(data): the value the cell holds after construction
new(v) == v

\* SpinLock::new(t) / UnsafeCell::new(t) in the body
New(t) ==
    /\ pc[t] = "ready"
    /\ Kind(t) = "New"
    /\ data' = new(Arg(t))
    /\ flag' = FALSE
    /\ last' = Arg(t)
    /\ ip' = [ip EXCEPT ![t] = @ + 1]
    /\ UNCHANGED <<prog, pc, mpc, bodyRuns, local, fres, out, fcalls, nret,
                   ptr, pre, saved, conflict, spun>>

\* a with that hands f a pointer to a temporary instead of the cell
with_ptr_temp == "temp"

\* self.0.get() in with: the pointer to the contained value
with_ptr == "cell"

\* self.0.get() in with_mut: the pointer to the contained value
with_mut_ptr == "cell"

\* the values a read of *p by t may give: a temporary holds the default
\* value; a read of the cell racing with a write window is a data race and
\* may give any value
Load(t, p) ==
    IF p = "cell"
    THEN IF ReadConflict(t) THEN Vals \cup {data} ELSE {data}
    ELSE {0}

\* with(f): f(self.0.get()) is called
with(t) ==
    /\ pc[t] = "ready"
    /\ Kind(t) \in RawKinds
    /\ pc' = [pc EXCEPT ![t] = "f"]
    /\ ptr' = [ptr EXCEPT ![t] = with_ptr]
    /\ fcalls' = [fcalls EXCEPT ![t] = @ + 1]
    /\ pre' = [pre EXCEPT ![t] = data]
    /\ UNCHANGED <<prog, ip, mpc, bodyRuns, flag, data, local, fres, out,
                   nret, last, saved, conflict, spun>>

\* a with_mut that waits until no other thread is inside the cell
with_mut_wait(t) ==
    /\ \/ pc[t] = "with_mut"
       \/ pc[t] = "ready" /\ Kind(t) \in RawMutKinds
    /\ ~InWindow(Other(t))
    /\ pc' = [pc EXCEPT ![t] = "f"]
    /\ ptr' = [ptr EXCEPT ![t] = with_mut_ptr]
    /\ fcalls' = [fcalls EXCEPT ![t] = @ + 1]
    /\ pre' = [pre EXCEPT ![t] = data]
    /\ UNCHANGED <<prog, ip, mpc, bodyRuns, flag, data, local, fres, out,
                   nret, last, saved, conflict, spun>>

\* with_mut(f): f(self.0.get()) is called
with_mut(t) ==
    /\ \/ pc[t] = "with_mut"
       \/ pc[t] = "ready" /\ Kind(t) \in RawMutKinds
    /\ pc' = [pc EXCEPT ![t] = "f"]
    /\ ptr' = [ptr EXCEPT ![t] = with_mut_ptr]
    /\ fcalls' = [fcalls EXCEPT ![t] = @ + 1]
    /\ pre' = [pre EXCEPT ![t] = data]
    /\ UNCHANGED <<prog, ip, mpc, bodyRuns, flag, data, local, fres, out,
                   nret, last, saved, conflict, spun>>

\* the closure reads through the pointer: |n| *n, or the read of *n += 1
FRead(t) ==
    /\ pc[t] = "f"
    /\ Kind(t) \in IncKinds \cup ReadKinds
    /\ \E v \in Load(t, ptr[t]) :
          IF Kind(t) \in IncKinds
          THEN /\ local' = [local EXCEPT ![t] = v]
               /\ pc' = [pc EXCEPT ![t] = "f2"]
               /\ fres' = fres
          ELSE /\ fres' = [fres EXCEPT ![t] = v]
               /\ pc' = [pc EXCEPT ![t] = "fret"]
               /\ local' = local
    /\ conflict' = (conflict \/ (ptr[t] = "cell" /\ ReadConflict(t)))
    /\ UNCHANGED <<prog, ip, mpc, bodyRuns, flag, data, out, fcalls, nret,
                   ptr, pre, last, saved, spun>>

\* the closure writes through the pointer: |n| *n = v, or the write of *n += 1
FWrite(t) ==
    /\ \/ pc[t] = "f" /\ Kind(t) \in SetKinds /\ last' = Arg(t)
       \/ pc[t] = "f2" /\ Kind(t) \in IncKinds /\ last' = local[t] + 1
    /\ data' = IF ptr[t] = "cell" THEN last' ELSE data
    /\ fres' = [fres EXCEPT ![t] = Unit]
    /\ pc' = [pc EXCEPT ![t] = "fret"]
    /\ conflict' = (conflict \/ (ptr[t] = "cell" /\ WriteConflict(t)))
    /\ UNCHANGED <<prog, ip, mpc, bodyRuns, flag, local, out, fcalls, nret,
                   ptr, pre, saved, spun>>

\* the closure keeps the pointer: |p| saved = p
FEscape(t) ==
    /\ pc[t] = "f"
    /\ Kind(t) = "WithEscape"
    /\ saved' = [saved EXCEPT ![t] = ptr[t]]
    /\ fres' = [fres EXCEPT ![t] = Unit]
    /\ pc' = [pc EXCEPT ![t] = "fret"]
    /\ UNCHANGED <<prog, ip, mpc, bodyRuns, flag, data, local, out, fcalls,
                   nret, ptr, pre, last, conflict, spun>>

\* with(f) returns what f returned
with_ret(t) ==
    /\ pc[t] = "fret"
    /\ Kind(t) \in RawKinds
    /\ out' = [out EXCEPT ![t] = fres[t]]
    /\ nret' = [nret EXCEPT ![t] = @ + 1]
    /\ pc' = [pc EXCEPT ![t] = "ready"]
    /\ ip' = [ip EXCEPT ![t] = @ + 1]
    /\ UNCHANGED <<prog, mpc, bodyRuns, flag, data, local, fres, fcalls, ptr,
                   pre, last, saved, conflict, spun>>

\* with_mut(f) returns what f returned; in SpinLock::with: let out = ...
with_mut_ret(t) ==
    /\ pc[t] = "fret"
    /\ Kind(t) \in MutKinds
    /\ out' = [out EXCEPT ![t] = fres[t]]
    /\ nret' = [nret EXCEPT ![t] = @ + 1]
    /\ IF Kind(t) \in LockKinds
       THEN /\ pc' = [pc EXCEPT ![t] = "store"]
            /\ ip' = ip
       ELSE /\ pc' = [pc EXCEPT ![t] = "ready"]
            /\ ip' = [ip EXCEPT ![t] = @ + 1]
    /\ UNCHANGED <<prog, mpc, bodyRuns, flag, data, local, fres, fcalls, ptr,
                   pre, last, saved, conflict, spun>>

\* the kept pointer is dereferenced outside any closure
Deref(t) ==
    /\ pc[t] = "ready"
    /\ Kind(t) = "Deref"
    /\ saved[t] # "none"
    /\ \E v \in Load(t, saved[t]) : out' = [out EXCEPT ![t] = v]
    /\ conflict' = (conflict \/ (saved[t] = "cell" /\ ReadConflict(t)))
    /\ ip' = [ip EXCEPT ![t] = @ + 1]
    /\ UNCHANGED <<prog, pc, mpc, bodyRuns, flag, data, local, fres, fcalls,
                   nret, ptr, pre, last, saved, spun>>

\* -------------------------------------------------------------- SpinLock
\* an exchange that takes the flag whatever its value
CasOk_swap(t) ==
    /\ pc[t] = "ready"
    /\ Kind(t) \in LockKinds
    /\ flag' = TRUE
    /\ pc' = [pc EXCEPT ![t] = "with_mut"]
    /\ UNCHANGED <<prog, ip, mpc, bodyRuns, data, local, fres, out, fcalls,
                   nret, ptr, pre, last, saved, conflict, spun>>

\* an exchange that reports success without setting the flag
CasOk_noset(t) ==
    /\ pc[t] = "ready"
    /\ Kind(t) \in LockKinds
    /\ flag = FALSE
    /\ flag' = flag
    /\ pc' = [pc EXCEPT ![t] = "with_mut"]
    /\ UNCHANGED <<prog, ip, mpc, bodyRuns, data, local, fres, out, fcalls,
                   nret, ptr, pre, last, saved, conflict, spun>>

\* flag.compare_exchange_weak(false, true, ..) returns Ok
CasOk(t) ==
    /\ pc[t] = "ready"
    /\ Kind(t) \in LockKinds
    /\ flag = FALSE
    /\ flag' = TRUE
    /\ pc' = [pc EXCEPT ![t] = "with_mut"]
    /\ UNCHANGED <<prog, ip, mpc, bodyRuns, data, local, fres, out, fcalls,
                   nret, ptr, pre, last, saved, conflict, spun>>

\* compare_exchange_weak returns Err: the flag is held, or the weak
\* exchange fails spuriously
CasFail(t) ==
    /\ pc[t] = "ready"
    /\ Kind(t) \in LockKinds
    /\ pc' = [pc EXCEPT ![t] = "spin"]
    /\ spun' = spun \cup {t}
    /\ UNCHANGED <<prog, ip, mpc, bodyRuns, flag, data, local, fres, out,
                   fcalls, nret, ptr, pre, last, saved, conflict>>

\* hint::spin_loop(), then the loop tries again
spin_loop(t) ==
    /\ pc[t] = "spin"
    /\ pc' = [pc EXCEPT ![t] = "ready"]
    /\ UNCHANGED <<prog, ip, mpc, bodyRuns, flag, data, local, fres, out,
                   fcalls, nret, ptr, pre, last, saved, conflict, spun>>

\* a SpinLock::with that returns without releasing the flag
store_skip(t) ==
    /\ pc[t] = "store"
    /\ flag' = flag
    /\ pc' = [pc EXCEPT ![t] = "ready"]
    /\ ip' = [ip EXCEPT ![t] = @ + 1]
    /\ UNCHANGED <<prog, mpc, bodyRuns, data, local, fres, out, fcalls, nret,
                   ptr, pre, last, saved, conflict, spun>>

\* flag.store(false, Release); SpinLock::with returns out
store(t) ==
    /\ pc[t] = "store"
    /\ flag' = FALSE
    /\ pc' = [pc EXCEPT ![t] = "ready"]
    /\ ip' = [ip EXCEPT ![t] = @ + 1]
    /\ UNCHANGED <<prog, mpc, bodyRuns, data, local, fres, out, fcalls, nret,
                   ptr, pre, last, saved, conflict, spun>>

\* ---------------------------------------------------------------- thread
\* thread::spawn(move || ...)
Spawn(t) ==
    /\ pc[t] = "ready"
    /\ Kind(t) = "Spawn"
    /\ pc[Other(t)] = "start"
    /\ pc' = [pc EXCEPT ![Other(t)] = "ready"]
    /\ ip' = [ip EXCEPT ![t] = @ + 1]
    /\ UNCHANGED <<prog, mpc, bodyRuns, flag, data, local, fres, out, fcalls,
                   nret, ptr, pre, last, saved, conflict, spun>>

\* t.join().unwrap()
Join(t) ==
    /\ pc[t] = "ready"
    /\ Kind(t) = "Join"
    /\ pc[Other(t)] = "done"
    /\ ip' = [ip EXCEPT ![t] = @ + 1]
    /\ UNCHANGED <<prog, pc, mpc, bodyRuns, flag, data, local, fres, out,
                   fcalls, nret, ptr, pre, last, saved, conflict, spun>>

\* the spawned closure returns
ThreadExit(t) ==
    /\ t # "main"
    /\ pc[t] = "ready"
    /\ ~HasOp(t)
    /\ pc' = [pc EXCEPT ![t] = "done"]
    /\ UNCHANGED <<prog, ip, mpc, bodyRuns, flag, data, local, fres, out,
                   fcalls, nret, ptr, pre, last, saved, conflict, spun>>

\* ------------------------------------------------------------------ Spec
CellStep(t) ==
    \/ with(t)
    \/ with_mut(t)
    \/ FRead(t)
    \/ FWrite(t)
    \/ FEscape(t)
    \/ with_ret(t)
    \/ with_mut_ret(t)

ThreadNext(t) ==
    \/ New(t)
    \/ CellStep(t)
    \/ Deref(t)
    \/ CasOk(t)
    \/ CasFail(t)
    \/ spin_loop(t)
    \/ store(t)
    \/ Spawn(t)
    \/ Join(t)
    \/ ThreadExit(t)

Next ==
    \/ model
    \/ model_ret
    \/ \E t \in Threads : ThreadNext(t)

Spec == Init /\ [][Next]_vars

\* every thread that can step eventually does, and a weak exchange on a free
\* flag does not fail forever
Fairness ==
    /\ WF_vars(model)
    /\ WF_vars(model_ret)
    /\ \A t \in Threads : WF_vars(ThreadNext(t)) /\ SF_vars(CasOk(t))

FairSpec == Init /\ [][Next]_vars /\ Fairness

\* ---------------------------------------------------------------- claims
\* t has taken the flag and not yet released it
Holding(t) ==
    Kind(t) \in LockKinds /\ pc[t] \in {"with_mut", "f", "f2", "fret", "store"}

\* t is inside the closure of data.with_mut in SpinLock::with
InLocked(t) == Kind(t) \in LockKinds /\ InWindow(t)

\* t is at or inside a call of with / with_mut
AtCell(t) ==
    \/ pc[t] \in {"with_mut", "f", "f2", "fret"}
    \/ pc[t] = "ready" /\ Kind(t) \in RawKinds \cup RawMutKinds

\* main, alone, has just returned from a call of with whose closure reads
AfterRead ==
    /\ prog["t"] = << >>
    /\ pc["main"] = "ready"
    /\ ip["main"] > 2
    /\ prog["main"][ip["main"] - 1].k = "With"

\* C1: model invokes the body exactly once, and has returned only after the
\* body ran to its end; the body is never run a second time.
C1_BodyOnce ==
    /\ mpc = "idle" => bodyRuns = 0
    /\ mpc = "running" => bodyRuns = 1
    /\ mpc = "returned" => bodyRuns = 1 /\ ~HasOp("main") /\ pc["main"] = "done"

C1_Witness == mpc = "returned" /\ bodyRuns = 1 /\ Len(prog["main"]) > 1

\* C2: in the documented test the value main reads after its write of 456 is
\* 456 or 457 in every interleaving.
C2_SimpleOut ==
    (prog = TestSimple /\ ip["main"] > 4) => out["main"] \in {456, 457}

C2_Witness ==
    prog = TestSimple /\ mpc = "returned" /\ out["main"] = 457

\* C3: two locked increments of a counter that starts at 0 leave it at 2 once
\* both threads have finished.
C3_NoLostUpdate ==
    (prog = TestIncr /\ pc["t"] = "done" /\ ip["main"] > 3) => data = 2

C3_Witness ==
    prog = TestIncr /\ pc["t"] = "done" /\ ip["main"] > 3 /\ data = 2
    /\ spun = Threads

\* C4: under fair scheduling a thread that spins eventually takes the lock,
\* and model returns with the lock released.
C4_Terminates ==
    /\ <>(mpc = "returned" /\ ~flag)
    /\ \A t \in Threads : (pc[t] = "spin") ~> Holding(t)

C4_Witness ==
    prog \in {TestSimple, TestIncr} /\ mpc = "returned" /\ ~flag /\ "t" \in spun

\* C5: a read through with right after new(v) returns v.
C5_RoundTrip ==
    (/\ Len(prog["main"]) >= 2
     /\ prog["main"][1].k = "New"
     /\ prog["main"][2].k = "With"
     /\ ip["main"] = 3
     /\ pc["main"] = "ready") => out["main"] = prog["main"][1].v

C5_Witness ==
    /\ Len(prog["main"]) >= 2
    /\ prog["main"][2].k = "With"
    /\ ip["main"] = 3
    /\ pc["main"] = "ready"
    /\ out["main"] = prog["main"][1].v
    /\ out["main"] > 0

\* C7: a thread at or inside with / with_mut can always take its next step,
\* whatever the other thread is doing.
C7_NeverWaits == \A t \in Threads : AtCell(t) => ENABLED CellStep(t)

C7_Witness ==
    \E t \in Threads :
        /\ pc[t] = "ready"
        /\ Kind(t) \in RawMutKinds
        /\ InWithMut(Other(t))

\* C9: on a cell used by one thread, each with / with_mut invokes its closure
\* once and returns the closure's result; a read returns the value of the
\* most recent write (or the constructed value) and leaves the cell as it was.
C9_PassThrough ==
    /\ (prog["t"] = << >> /\ pc["main"] = "ready" /\ ip["main"] >= 2) =>
          /\ fcalls["main"] = ip["main"] - 2
          /\ nret["main"] = ip["main"] - 2
          /\ ip["main"] > 2 => out["main"] = fres["main"]
    /\ AfterRead => out["main"] = last /\ data = pre["main"] /\ data = last

C9_Witness ==
    /\ AfterRead
    /\ ip["main"] = 4
    /\ prog["main"][2].k \in RawMutKinds
    /\ out["main"] = last
    /\ out["main"] # prog["main"][1].v

\* C10: at most one thread is inside the locked closure, the flag is set
\* while one is, and the flag is clear when no thread holds the lock.
C10_Mutex ==
    /\ Cardinality({t \in Threads : InLocked(t)}) <= 1
    /\ (\E t \in Threads : InLocked(t)) => flag
    /\ (\A t \in Threads : ~Holding(t)) => ~flag

C10_Witness ==
    \E t \in Threads : InLocked(t) /\ pc[Other(t)] = "spin" /\ flag

====
